---- MODULE Spec2Model ----
(***************************************************************************)
(* Loan ledger of loan_management_system.py (class LoanManagementSystem    *)
(* and the edit_loan route) over its SQLite store.                         *)
(*                                                                         *)
(* Every ledger method opens its own sqlite3 connection (lines 139, 165,   *)
(* 193, 233, 484).  The store is therefore modelled as the COMMITTED       *)
(* tables (clients, loans, payments, notifications) plus the one database  *)
(* write lock: the first INSERT/UPDATE of a connection begins a            *)
(* transaction and takes the lock, its writes become visible to other      *)
(* connections at conn.commit(), and a connection that finds the lock      *)
(* taken raises sqlite3.OperationalError after the busy timeout.           *)
(*                                                                         *)
(* Money is kept exact: total_amount and paid_amount are counted in        *)
(* 1/(DaysPerYear*PercentDivisor) of a currency unit, principal and fee in *)
(* whole units, interest_rate in percent (the routes divide the form value *)
(* by 100), rating_score in tenths.  Dates are day numbers.                *)
(***************************************************************************)
EXTENDS Integers, Sequences, FiniteSets, TLC

\* ---- bounds of the model ----
MaxClients == 1
MaxLoans == 1
MaxPayments == 2
MaxDay == 1
MaxRatingLoans == 5

\* ---- program constants ----
DaysPerYear == 365
PercentDivisor == 100
DefaultRating == 50

\* ---- inputs the callers supply ----
\* create_loan is called for a registered client: the form offers the
\* clients of the SELECT of line 476
Principals == {100}
RatePcts == {10}
Terms == {1, 30}
Fees == {5}
Money(x) == x * DaysPerYear * PercentDivisor
PayAmounts == {Money(-30), Money(60)}
\* request threads: one serves the calls that do not overlap, the second
\* is the other party of a race
Handlers == {1, 2}
SeqHandlers == {1}
Days == 0..MaxDay

\* clients, loans, payments, notifications: the committed rows, in rowid
\*     order (AUTOINCREMENT ids are the positions)
\* today: the date datetime.now().date() returns
\* lock: "free", "txn" (held by the open transaction of the make_payment
\*     call in progress) or "leaked" (held by the connection of a call that
\*     raised before conn.commit() and conn.close())
\* pc, loc: position and local variables of each make_payment call
\* ret: how the most recent call ended, the exception it raised or the
\*     value it returned
\* sweepRun: how many check_delinquent_loans calls ran last with nothing
\*     in between, counted up to 2
VARIABLES clients, loans, payments, notifications, today, lock, pc, loc, ret,
          sweepRun

vars == <<clients, loans, payments, notifications, today, lock, pc, loc, ret,
          sweepRun>>
db == <<clients, loans, payments, notifications>>

Min(a, b) == IF a < b THEN a ELSE b
Max(a, b) == IF a > b THEN a ELSE b

\* interest_amount and total_amount of create_loan / edit_loan
TotalAmount(p, r, t, f) == Money(p) + p * r * t + Money(f)

NoLocals == [loan_id |-> 0, amount |-> 0, paid_amount |-> 0,
             total_amount |-> 0, client_id |-> 0]
Returned(op, v) == [raised |-> "", value |-> v]
Raised(op, e) == [raised |-> e, value |-> 0]

RECURSIVE SumPayments(_, _)
SumPayments(ps, l) ==
    IF ps = <<>> THEN 0
    ELSE (IF Head(ps).loan_id = l THEN Head(ps).amount ELSE 0)
         + SumPayments(Tail(ps), l)

Init ==
    /\ clients = <<>>
    /\ loans = <<>>
    /\ payments = <<>>
    /\ notifications = <<>>
    /\ today = 0
    /\ lock = "free"
    /\ pc = [h \in Handlers |-> "idle"]
    /\ loc = [h \in Handlers |-> NoLocals]
    /\ ret = Returned("init_database", 0)
    /\ sweepRun = 0

\* ---- the rating rule of update_client_rating ----
LoanCounts(ls, c) ==
    [total |-> Cardinality({i \in DOMAIN ls : ls[i].client_id = c}),
     paid |-> Cardinality({i \in DOMAIN ls :
                  ls[i].client_id = c /\ ls[i].status = "paid"}),
     delinquent |-> Cardinality({i \in DOMAIN ls :
                  ls[i].client_id = c /\ ls[i].status = "delinquent"})]

\* "n / total if total > 0 else 0" compared with tenths/10
RatioAbove(n, total, tenths) ==
    IF total > 0 THEN n * 10 > tenths * total ELSE FALSE

Clamp(r) == Max(10, Min(100, r))

Rating(total, paid, delinquent) ==
    LET bonus == IF RatioAbove(paid, total, 8) THEN 25
                 ELSE IF RatioAbove(paid, total, 6) THEN 15
                 ELSE IF RatioAbove(paid, total, 4) THEN 5
                 ELSE 0
        penalty == IF RatioAbove(delinquent, total, 2) THEN 20
                   ELSE IF RatioAbove(delinquent, total, 1) THEN 10
                   ELSE 0
    IN  Clamp(50 + bonus - penalty)

\* the count of paid loans bound in place of the rating
StoredPaidCount(total, paid, delinquent) == paid * 10

\* the value bound to "UPDATE clients SET rating_score = ?"
StoredRating(total, paid, delinquent) == Rating(total, paid, delinquent)

SetRating(cs, c, r) ==
    IF c \in DOMAIN cs THEN [cs EXCEPT ![c].rating_score = r] ELSE cs

\* update_client_rating called on its own, no other transaction open
update_client_rating(c) ==
    LET n == LoanCounts(loans, c) IN
    /\ \A h \in Handlers : pc[h] = "idle"
    /\ IF n.total > 0
       THEN IF lock = "free"
            THEN /\ clients' = SetRating(clients, c,
                                   StoredRating(n.total, n.paid, n.delinquent))
                 /\ ret' = Returned("update_client_rating", 0)
            ELSE /\ ret' = Raised("update_client_rating", "OperationalError")
                 /\ UNCHANGED clients
       ELSE /\ ret' = Returned("update_client_rating", 0)
            /\ UNCHANGED clients
    /\ sweepRun' = 0
    /\ UNCHANGED <<loans, payments, notifications, today, lock, pc, loc>>

\* ---- client registry and loan origination ----
create_client ==
    /\ Len(clients) < MaxClients
    /\ IF lock = "free"
       THEN /\ clients' = Append(clients,
                  [rating_score |-> DefaultRating, total_loans |-> 0,
                   paid_loans |-> 0, delinquent_loans |-> 0])
            /\ ret' = Returned("create_client", Len(clients) + 1)
       ELSE /\ ret' = Raised("create_client", "OperationalError")
            /\ UNCHANGED clients
    /\ sweepRun' = 0
    /\ UNCHANGED <<loans, payments, notifications, today, lock, pc, loc>>

BumpCounter(cs, c, field) ==
    IF c \in DOMAIN cs
    THEN [cs EXCEPT ![c] = [@ EXCEPT ![field] = @ + 1]]
    ELSE cs

create_loan(c, p, r, t, f) ==
    /\ Len(loans) < MaxLoans
    /\ IF lock = "free"
       THEN /\ loans' = Append(loans,
                  [client_id |-> c, principal_amount |-> p,
                   interest_rate |-> r, loan_term_days |-> t,
                   processing_fee |-> f, due_date |-> today + t,
                   total_amount |-> TotalAmount(p, r, t, f),
                   paid_amount |-> 0, status |-> "active"])
            /\ clients' = BumpCounter(clients, c, "total_loans")
            /\ ret' = Returned("create_loan", Len(loans) + 1)
       ELSE /\ ret' = Raised("create_loan", "OperationalError")
            /\ UNCHANGED <<clients, loans>>
    /\ sweepRun' = 0
    /\ UNCHANGED <<payments, notifications, today, lock, pc, loc>>

\* total_amount left out of the UPDATE
edit_loan_keep_total(id, p, r, t, f, due) ==
    /\ IF lock = "free"
       THEN /\ loans' = IF id \in DOMAIN loans
                        THEN [loans EXCEPT ![id] =
                               [@ EXCEPT !.principal_amount = p,
                                         !.interest_rate = r,
                                         !.loan_term_days = t,
                                         !.processing_fee = f,
                                         !.due_date = due]]
                        ELSE loans
            /\ ret' = Returned("edit_loan", 0)
       ELSE /\ ret' = Raised("edit_loan", "OperationalError")
            /\ UNCHANGED loans
    /\ sweepRun' = 0
    /\ UNCHANGED <<clients, payments, notifications, today, lock, pc, loc>>

\* the edit also starts the repayment over
edit_loan_reset_paid(id, p, r, t, f, due) ==
    /\ IF lock = "free"
       THEN /\ loans' = IF id \in DOMAIN loans
                        THEN [loans EXCEPT ![id] =
                               [@ EXCEPT !.principal_amount = p,
                                         !.interest_rate = r,
                                         !.loan_term_days = t,
                                         !.processing_fee = f,
                                         !.due_date = due,
                                         !.total_amount =
                                             TotalAmount(p, r, t, f),
                                         !.paid_amount = 0]]
                        ELSE loans
            /\ ret' = Returned("edit_loan", 0)
       ELSE /\ ret' = Raised("edit_loan", "OperationalError")
            /\ UNCHANGED loans
    /\ sweepRun' = 0
    /\ UNCHANGED <<clients, payments, notifications, today, lock, pc, loc>>

\* lines 487-508
edit_loan(id, p, r, t, f, due) ==
    /\ IF lock = "free"
       THEN /\ loans' = IF id \in DOMAIN loans
                        THEN [loans EXCEPT ![id] =
                               [@ EXCEPT !.principal_amount = p,
                                         !.interest_rate = r,
                                         !.loan_term_days = t,
                                         !.processing_fee = f,
                                         !.due_date = due,
                                         !.total_amount =
                                             TotalAmount(p, r, t, f)]]
                        ELSE loans
            /\ ret' = Returned("edit_loan", 0)
       ELSE /\ ret' = Raised("edit_loan", "OperationalError")
            /\ UNCHANGED loans
    /\ sweepRun' = 0
    /\ UNCHANGED <<clients, payments, notifications, today, lock, pc, loc>>

\* ---- make_payment, one step per statement that can interleave ----
\* "paid_amount +" dropped
new_paid_amount_overwrite(h) == loc[h].amount
\* an increment of the stored value in place of the value read
new_paid_amount_in_place(h) ==
    loans[loc[h].loan_id].paid_amount + loc[h].amount

\* line 173
new_paid_amount(h) == loc[h].paid_amount + loc[h].amount

\* the payment row written ahead of the "if result" of line 171
make_payment_select_insert_first(h, id, amt) ==
    /\ pc[h] = "idle"
    /\ Len(payments) < MaxPayments
    /\ IF id \in DOMAIN loans
       THEN /\ loc' = [loc EXCEPT ![h] =
                  [loan_id |-> id, amount |-> amt,
                   paid_amount |-> loans[id].paid_amount,
                   total_amount |-> loans[id].total_amount,
                   client_id |-> loans[id].client_id]]
            /\ pc' = [pc EXCEPT ![h] = "selected"]
            /\ UNCHANGED <<ret, payments>>
       ELSE /\ payments' = Append(payments,
                               [loan_id |-> id, amount |-> amt])
            /\ ret' = Returned("make_payment", 0)
            /\ UNCHANGED <<loc, pc>>
    /\ sweepRun' = 0
    /\ UNCHANGED <<clients, loans, notifications, today, lock>>

\* lines 165-172: connect, SELECT, fetchone
make_payment_select(h, id, amt) ==
    /\ pc[h] = "idle"
    /\ Len(payments) < MaxPayments
    /\ IF id \in DOMAIN loans
       THEN /\ loc' = [loc EXCEPT ![h] =
                  [loan_id |-> id, amount |-> amt,
                   paid_amount |-> loans[id].paid_amount,
                   total_amount |-> loans[id].total_amount,
                   client_id |-> loans[id].client_id]]
            /\ pc' = [pc EXCEPT ![h] = "selected"]
            /\ UNCHANGED ret
       ELSE /\ ret' = Returned("make_payment", 0)
            /\ UNCHANGED <<loc, pc>>
    /\ sweepRun' = 0
    /\ UNCHANGED <<clients, loans, payments, notifications, today, lock>>

\* lines 175-184: the INSERT begins the transaction; the writes stay
\* private to this connection until the commit
make_payment_write(h) ==
    /\ pc[h] = "selected"
    /\ IF lock = "free"
       THEN /\ lock' = "txn"
            /\ pc' = [pc EXCEPT ![h] =
                  IF new_paid_amount(h) >= loc[h].total_amount
                  THEN "rating" ELSE "written"]
            /\ UNCHANGED <<loc, ret>>
       ELSE /\ ret' = Raised("make_payment", "OperationalError")
            /\ pc' = [pc EXCEPT ![h] = "idle"]
            /\ loc' = [loc EXCEPT ![h] = NoLocals]
            /\ UNCHANGED lock
    /\ sweepRun' = 0
    /\ UNCHANGED <<clients, loans, payments, notifications, today>>

PaymentRow(h) == [loan_id |-> loc[h].loan_id, amount |-> loc[h].amount]

\* line 187 on the path that skipped the "if" of line 182
make_payment_commit(h) ==
    /\ pc[h] = "written"
    /\ payments' = Append(payments, PaymentRow(h))
    /\ loans' = [loans EXCEPT ![loc[h].loan_id].paid_amount =
                                   new_paid_amount(h)]
    /\ lock' = "free"
    /\ pc' = [pc EXCEPT ![h] = "idle"]
    /\ loc' = [loc EXCEPT ![h] = NoLocals]
    /\ ret' = Returned("make_payment", 0)
    /\ sweepRun' = 0
    /\ UNCHANGED <<clients, notifications, today>>

\* lines 183-187: status and paid_loans are written in the open
\* transaction, then update_client_rating runs on a second connection.
\* Its SELECT sees the committed loans; its UPDATE needs the write lock
\* this call still holds, so it raises and line 187 is never reached.
\* The connection of make_payment is left open (line 189 is skipped) and
\* keeps the lock until it is finalized.
make_payment_paid(h) ==
    LET n == LoanCounts(loans, loc[h].client_id) IN
    /\ pc[h] = "rating"
    /\ IF n.total > 0
       THEN /\ ret' = Raised("make_payment", "OperationalError")
            /\ lock' = "leaked"
            /\ UNCHANGED <<clients, loans, payments>>
       ELSE /\ payments' = Append(payments, PaymentRow(h))
            /\ loans' = [loans EXCEPT ![loc[h].loan_id] =
                           [@ EXCEPT !.paid_amount = new_paid_amount(h),
                                     !.status = "paid"]]
            /\ clients' = BumpCounter(clients, loc[h].client_id,
                                      "paid_loans")
            /\ lock' = "free"
            /\ ret' = Returned("make_payment", 0)
    /\ pc' = [pc EXCEPT ![h] = "idle"]
    /\ loc' = [loc EXCEPT ![h] = NoLocals]
    /\ sweepRun' = 0
    /\ UNCHANGED <<notifications, today>>

\* the abandoned connection is finalized: its transaction rolls back
connection_finalized ==
    /\ lock = "leaked"
    /\ lock' = "free"
    /\ sweepRun' = 0
    /\ UNCHANGED <<clients, loans, payments, notifications, today, pc, loc,
                   ret>>

\* ---- delinquency sweep ----
Overdue(ls, day) ==
    {i \in DOMAIN ls : ls[i].status = "active" /\ ls[i].due_date < day}

\* line 247: the due_date the SELECT hands back.  The connection is opened
\* without detect_types (line 233), so the DATE column comes back as the
\* ISO text the date adapter stored, not as a date.
FetchedDueDate(loan) == [type |-> "str", day |-> loan.due_date]

\* lines 248-258: the notification row of one selected loan
DelinquentNotification(ls, i, day) ==
    [loan_id |-> i, notification_type |-> "delinquent",
     days_overdue |-> day - FetchedDueDate(ls[i]).day,
     outstanding |-> ls[i].total_amount - ls[i].paid_amount,
     status |-> "pending"]

\* the rows of cursor.fetchall() in rowid order
OverdueRows(ls, day) ==
    SelectSeq([i \in 1..Len(ls) |-> i], LAMBDA i : i \in Overdue(ls, day))

\* lines 236-265.  Line 249 subtracts the fetched due_date from a date:
\* with a text due_date that raises TypeError for the first selected loan,
\* before any UPDATE, so nothing is written; with no loan selected the
\* loop is skipped and the call returns 0.
check_delinquent_loans ==
    LET rows == OverdueRows(loans, today)
        subtractable == \A k \in 1..Len(rows) :
                            FetchedDueDate(loans[rows[k]]).type = "date"
    IN
    /\ IF subtractable
       THEN IF lock = "free" \/ rows = <<>>
            THEN /\ loans' = [i \in DOMAIN loans |->
                        IF i \in Overdue(loans, today)
                        THEN [loans[i] EXCEPT !.status = "delinquent"]
                        ELSE loans[i]]
                 /\ notifications' = notifications \o
                        [k \in 1..Len(rows) |->
                            DelinquentNotification(loans, rows[k], today)]
                 /\ clients' = [c \in DOMAIN clients |->
                        [clients[c] EXCEPT !.delinquent_loans = @ +
                            Cardinality({i \in Overdue(loans, today) :
                                            loans[i].client_id = c})]]
                 /\ ret' = Returned("check_delinquent_loans", Len(rows))
            ELSE /\ ret' = Raised("check_delinquent_loans",
                                  "OperationalError")
                 /\ UNCHANGED <<clients, loans, notifications>>
       ELSE /\ ret' = Raised("check_delinquent_loans", "TypeError")
            /\ UNCHANGED <<clients, loans, notifications>>
    /\ sweepRun' = Min(sweepRun + 1, 2)
    /\ UNCHANGED <<payments, today, lock, pc, loc>>

\* datetime.now().date() moves on
next_day ==
    /\ today < MaxDay
    /\ today' = today + 1
    /\ sweepRun' = 0
    /\ UNCHANGED <<clients, loans, payments, notifications, lock, pc, loc,
                   ret>>

Quiescent == \A h \in Handlers : pc[h] = "idle"

\* the ledger as section 5 of the design describes its use: one request
\* at a time, each call runs to its return before the next one starts
Next ==
    \/ Quiescent /\ create_client
    \/ \E c \in DOMAIN clients, p \in Principals, r \in RatePcts,
          t \in Terms, f \in Fees : Quiescent /\ create_loan(c, p, r, t, f)
    \/ \E id \in 1..MaxLoans, p \in Principals, r \in RatePcts,
          t \in Terms, f \in Fees, due \in Days :
          Quiescent /\ edit_loan(id, p, r, t, f, due)
    \/ \E h \in SeqHandlers, id \in 1..(MaxLoans + 1), amt \in PayAmounts :
          Quiescent /\ make_payment_select(h, id, amt)
    \/ Quiescent /\ check_delinquent_loans
    \/ \E h \in SeqHandlers : make_payment_write(h)
    \/ \E h \in SeqHandlers : make_payment_commit(h)
    \/ \E h \in SeqHandlers : make_payment_paid(h)
    \/ connection_finalized
    \/ next_day

Spec == Init /\ [][Next]_vars

\* two request threads posting payments at the same time
RaceNext ==
    \/ create_client
    \/ \E c \in DOMAIN clients, p \in Principals, r \in RatePcts,
          t \in Terms, f \in Fees : create_loan(c, p, r, t, f)
    \/ \E h \in Handlers, id \in 1..(MaxLoans + 1), amt \in PayAmounts :
          make_payment_select(h, id, amt)
    \/ \E h \in Handlers : make_payment_write(h)
    \/ \E h \in Handlers : make_payment_commit(h)
    \/ \E h \in Handlers : make_payment_paid(h)
    \/ connection_finalized

RaceSpec == Init /\ [][RaceNext]_vars

\* ---- the rating rule on its own: any loan history of one client ----
Statuses == {"active", "paid", "delinquent"}

HistoryLoan(st) ==
    [client_id |-> 1, principal_amount |-> 100, interest_rate |-> 10,
     loan_term_days |-> 30, processing_fee |-> 5, due_date |-> 30,
     total_amount |-> TotalAmount(100, 10, 30, 5),
     paid_amount |-> IF st = "paid" THEN TotalAmount(100, 10, 30, 5) ELSE 0,
     status |-> st]

RatingInit ==
    /\ \E n \in 0..MaxRatingLoans :
         \E sts \in [1..n -> Statuses] :
            /\ loans = [i \in 1..n |-> HistoryLoan(sts[i])]
            /\ clients = <<[rating_score |-> DefaultRating,
                            total_loans |-> n,
                            paid_loans |-> LoanCounts(loans, 1).paid,
                            delinquent_loans |->
                                LoanCounts(loans, 1).delinquent]>>
    /\ payments = <<>>
    /\ notifications = <<>>
    /\ today = 0
    /\ lock = "free"
    /\ pc = [h \in Handlers |-> "idle"]
    /\ loc = [h \in Handlers |-> NoLocals]
    /\ ret = Returned("init_database", 0)
    /\ sweepRun = 0

RatingNext == \E c \in 1..MaxClients : update_client_rating(c)

RatingSpec == RatingInit /\ [][RatingNext]_vars

\* ======================= properties =======================

\* a make_payment call whose new_paid_amount reached total_amount returns
\* (or raises) in this step
PaidCallEnds(h) == pc[h] = "rating" /\ pc'[h] = "idle"

\* C1: the call that first makes paid_amount >= total_amount increments the
\* owning client's paid_loans by one, and a call on a loan that is already
\* paid leaves paid_loans as it is.
C1_PaidLoansOnce ==
    [][\A h \in Handlers :
         (PaidCallEnds(h) /\ loc[h].client_id \in DOMAIN clients) =>
            clients'[loc[h].client_id].paid_loans =
                clients[loc[h].client_id].paid_loans
                + (IF loans[loc[h].loan_id].status = "paid" THEN 0 ELSE 1)
      ]_vars

\* C2: with calls that do not overlap, every loan's paid_amount is the sum
\* of the amounts of the payment rows stored for it.
C2_PaidEqualsPayments ==
    \A l \in DOMAIN loans : loans[l].paid_amount = SumPayments(payments, l)

\* a payment is on record and a further call, one that reached
\* total_amount, has ended and left its connection behind
C2_Witness ==
    /\ Quiescent
    /\ lock = "leaked"
    /\ ret.raised = "OperationalError"
    /\ \E l \in DOMAIN loans :
          /\ loans[l].paid_amount > 0
          /\ \E k \in DOMAIN payments : payments[k].loan_id = l

\* C3: the call that makes paid_amount >= total_amount leaves the loan paid,
\* and no step takes a paid loan to another status.
C3_PaidIsFinal ==
    [][\A l \in DOMAIN loans :
         /\ (\E h \in Handlers : PaidCallEnds(h) /\ loc[h].loan_id = l)
               => loans'[l].status = "paid"
         /\ loans[l].status = "paid" => loans'[l].status = "paid"
      ]_vars

\* C4: when the call that moves a loan to paid has ended, the client's
\* rating_score is the rating rule applied to the loan-status counts with
\* that loan counted as paid.
C4_RatingAfterPaid ==
    [][\A h \in Handlers :
         (PaidCallEnds(h) /\ loc[h].client_id \in DOMAIN clients) =>
            LET c == loc[h].client_id
                after == [loans' EXCEPT ![loc[h].loan_id].status = "paid"]
                n == LoanCounts(after, c)
            IN  clients'[c].rating_score =
                    Rating(n.total, n.paid, n.delinquent)
      ]_vars

\* C5: every loan's total_amount is principal + principal*rate*(term/365)
\* + fee of its stored principal, rate, term and fee.
C5_TotalAmountFormula ==
    \A l \in DOMAIN loans :
        loans[l].total_amount =
            TotalAmount(loans[l].principal_amount, loans[l].interest_rate,
                        loans[l].loan_term_days, loans[l].processing_fee)

\* a loan that was edited (a 30 day term with a due date no creation
\* gives) and has been paid on
C5_Witness ==
    \E l \in DOMAIN loans :
        /\ loans[l].loan_term_days = 30
        /\ loans[l].due_date < 30
        /\ loans[l].paid_amount # 0

\* C6: a second sweep right after a sweep, same date, nothing in between,
\* returns 0 and changes no loan, client or notification.
C6_SecondSweepReturnsZero ==
    [][(sweepRun = 1 /\ sweepRun' = 2) =>
          /\ ret'.raised = ""
          /\ ret'.value = 0
          /\ UNCHANGED db
      ]_vars

\* C7: one sweep marks exactly the active loans with due_date < today as
\* delinquent, appends one pending notification per marked loan with its
\* days_overdue and outstanding, adds one to the owner's delinquent_loans
\* per marked loan, and returns the number of marked loans.
C7_SweepMarksOverdue ==
    [][(sweepRun' = sweepRun + 1) =>
          LET marked == Overdue(loans, today) IN
          /\ \A l \in DOMAIN loans :
                loans'[l] = IF l \in marked
                            THEN [loans[l] EXCEPT !.status = "delinquent"]
                            ELSE loans[l]
          /\ Len(notifications') = Len(notifications) + Cardinality(marked)
          /\ \A l \in marked :
                Cardinality({k \in DOMAIN notifications' :
                    /\ k > Len(notifications)
                    /\ notifications'[k] =
                         [loan_id |-> l, notification_type |-> "delinquent",
                          days_overdue |-> today - loans[l].due_date,
                          outstanding |-> loans[l].total_amount
                                          - loans[l].paid_amount,
                          status |-> "pending"]}) = 1
          /\ \A c \in DOMAIN clients :
                clients'[c].delinquent_loans =
                    clients[c].delinquent_loans
                    + Cardinality({l \in marked : loans[l].client_id = c})
          /\ ret'.raised = ""
          /\ ret'.value = Cardinality(marked)
      ]_vars

\* C8: the commit of make_payment stores the paid_amount it read plus its
\* amount, whatever was committed since the read: the amount by which the
\* payment rows of the loan exceed its paid_amount grows by exactly what
\* other calls added between this call's read and its write.
C8_LostUpdate ==
    [][\A h \in Handlers :
         (pc[h] = "written" /\ pc'[h] = "idle") =>
            LET l == loc[h].loan_id IN
            /\ loans'[l].paid_amount = loc[h].paid_amount + loc[h].amount
            /\ SumPayments(payments', l) - loans'[l].paid_amount =
                  (SumPayments(payments, l) - loans[l].paid_amount)
                  + (loans[l].paid_amount - loc[h].paid_amount)
      ]_vars

\* both calls have returned, both payment rows are stored, both amounts
\* are positive, and paid_amount is short of their sum
C8_Witness ==
    /\ Quiescent
    /\ \E l \in DOMAIN loans :
          /\ Len(payments) = 2
          /\ \A k \in DOMAIN payments :
                payments[k].loan_id = l /\ payments[k].amount > 0
          /\ loans[l].paid_amount < SumPayments(payments, l)

\* C9 as stated: no step lowers a loan's paid_amount.
C9_PaidNeverDecreases ==
    [][\A l \in DOMAIN loans :
         loans'[l].paid_amount >= loans[l].paid_amount]_vars

\* C9: a step lowers a loan's paid_amount only when it commits a payment
\* of negative amount on that loan.
C9_PaidDecreasesOnlyByNegativePayment ==
    [][\A l \in DOMAIN loans :
         loans'[l].paid_amount < loans[l].paid_amount =>
            \E h \in Handlers :
               /\ pc[h] = "written" /\ pc'[h] = "idle"
               /\ loc[h].loan_id = l
               /\ loc[h].amount < 0
      ]_vars

\* payments were posted, the loan was edited and a sweep has just run
C9_Witness ==
    \E l \in DOMAIN loans :
        /\ loans[l].paid_amount > 0
        /\ Len(payments) >= 2
        /\ loans[l].loan_term_days = 1
        /\ loans[l].due_date = 0
        /\ sweepRun >= 1

\* C10: every client's rating_score lies in [1.0, 10.0].
C10_RatingInRange ==
    \A c \in DOMAIN clients :
        clients[c].rating_score >= 10 /\ clients[c].rating_score <= 100

\* the rule has run on a history with no loan paid and more than a fifth
\* delinquent: 5.0 - 2.0
C10_Witness ==
    \E c \in DOMAIN clients :
        /\ clients[c].rating_score = 30
        /\ LoanCounts(loans, c).delinquent > 0

\* a make_payment call for a loan id that no loan row carries
UnknownLoanPayment ==
    \E h \in Handlers, id \in 1..(MaxLoans + 1), amt \in PayAmounts :
        id \notin DOMAIN loans /\ make_payment_select(h, id, amt)

\* C11: make_payment on a loan id that does not exist raises no error,
\* returns nothing, appends no payment row and leaves every loan, client
\* and notification as it was; it opens no transaction either.
C11_UnknownLoanIsNoOp ==
    [][UnknownLoanPayment =>
          /\ ret'.raised = ""
          /\ ret'.value = 0
          /\ UNCHANGED <<clients, loans, payments, notifications>>
          /\ UNCHANGED <<lock, pc, loc>>
      ]_vars

\* such a call has returned without an exception while an abandoned
\* connection keeps the database locked for writers and a payment row is
\* on record: on day 0, with no call in progress and no sweep just run,
\* every other call that returns normally is ruled out
C11_Witness ==
    /\ Quiescent
    /\ lock = "leaked"
    /\ today = 0
    /\ sweepRun = 0
    /\ ret.raised = ""
    /\ payments # <<>>

\* Every loan row keeps the status create_loan gave it: the paid branch of
\* make_payment never commits and the sweep never reaches its UPDATE, so
\* no state holds a paid or a delinquent loan.  What C12 says of
\* delinquent loans (due_date < today and paid_amount < total_amount) has
\* no loan to apply to.
EveryLoanStaysActive ==
    \A l \in DOMAIN loans : loans[l].status = "active"

\* the statement of C12 itself
DelinquentIsOverdueAndUnpaid ==
    \A l \in DOMAIN loans :
        loans[l].status = "delinquent" =>
            /\ loans[l].due_date < today
            /\ loans[l].paid_amount < loans[l].total_amount

====
